---------------------------- MODULE Spec2Model ----------------------------
(***************************************************************************)
(* Model of ev-consumption-curve.py: one run of the command-line program,  *)
(* from the raw option values through parse_params, the calibration query, *)
(* the speed sweep and the final print.                                    *)
(*                                                                         *)
(* Python floats are modelled as exact rationals (sign, numerator,         *)
(* denominator) over arbitrary-precision naturals, extended with NaN (the  *)
(* value float("nan") yields) and with the ZeroDivisionError that float    *)
(* division raises.  Rounding error of IEEE doubles is not modelled.       *)
(***************************************************************************)
EXTENDS Integers, Sequences, FiniteSets, TLC

----------------------------------------------------------------------------
(* Arbitrary-precision naturals: little-endian sequences of limbs in       *)
(* 0..Base-1 without leading zero limbs; zero is the empty sequence.       *)

Base == 10 ^ 3

Max(a, b) == IF a >= b THEN a ELSE b

Min(a, b) == IF a <= b THEN a ELSE b

Limb(a, i) == IF i >= 1 /\ i <= Len(a) THEN a[i] ELSE 0

RECURSIVE Strip(_)
Strip(a) ==
    IF a = <<>> THEN <<>>
    ELSE IF a[Len(a)] = 0 THEN Strip(SubSeq(a, 1, Len(a) - 1)) ELSE a

RECURSIVE Carry(_, _, _)
Carry(cols, i, c) ==
    IF i > Len(cols)
    THEN IF c = 0 THEN <<>> ELSE <<c % Base>> \o Carry(cols, i, c \div Base)
    ELSE LET t == cols[i] + c IN <<t % Base>> \o Carry(cols, i + 1, t \div Base)

RECURSIVE NatToBig(_)
NatToBig(k) == IF k = 0 THEN <<>> ELSE <<k % Base>> \o NatToBig(k \div Base)

BigAdd(a, b) ==
    Strip(Carry([i \in 1..Max(Len(a), Len(b)) |-> Limb(a, i) + Limb(b, i)], 1, 0))

RECURSIVE ColSum(_, _, _, _)
ColSum(a, b, k, i) ==
    IF i > Min(Len(a), k) THEN 0
    ELSE a[i] * b[k - i + 1] + ColSum(a, b, k, i + 1)

BigMul(a, b) ==
    IF a = <<>> \/ b = <<>> THEN <<>>
    ELSE Strip(Carry([k \in 1..(Len(a) + Len(b) - 1) |->
                        ColSum(a, b, k, Max(1, k - Len(b) + 1))], 1, 0))

RECURSIVE CmpFrom(_, _, _)
CmpFrom(a, b, i) ==
    IF i = 0 THEN 0
    ELSE IF a[i] < b[i] THEN -1
    ELSE IF a[i] > b[i] THEN 1
    ELSE CmpFrom(a, b, i - 1)

\* -1, 0, 1 as a < b, a = b, a > b
BigCmp(a, b) ==
    IF Len(a) < Len(b) THEN -1
    ELSE IF Len(a) > Len(b) THEN 1
    ELSE CmpFrom(a, b, Len(a))

RECURSIVE Borrow(_, _, _, _)
Borrow(a, b, i, c) ==
    IF i > Len(a) THEN <<>>
    ELSE LET t == a[i] - Limb(b, i) - c
         IN  IF t < 0 THEN <<t + Base>> \o Borrow(a, b, i + 1, 1)
             ELSE <<t>> \o Borrow(a, b, i + 1, 0)

\* a - b for a >= b
BigSub(a, b) == Strip(Borrow(a, b, 1, 0))

----------------------------------------------------------------------------
(* Float values: a finite number, NaN, or the pending ZeroDivisionError    *)
(* of the expression being evaluated (an exception aborts every enclosing  *)
(* operation, so it propagates through all arithmetic).                    *)

NaN == [tag |-> "nan", neg |-> FALSE, n |-> <<>>, d |-> <<>>]

ZeroDivisionError == [tag |-> "ZeroDivisionError", neg |-> FALSE, n |-> <<>>, d |-> <<>>]

\* the float num/den for integers num, den with den > 0
Frac(num, den) ==
    [tag |-> "num", neg |-> num < 0,
     n |-> NatToBig(IF num < 0 THEN -num ELSE num), d |-> NatToBig(den)]

IsNum(x) == x.tag = "num"

IsNaN(x) == x.tag = "nan"

IsErr(x) == x.tag = "ZeroDivisionError"

IsZero(x) == IsNum(x) /\ x.n = <<>>

\* common trailing zero limbs of numerator and denominator are dropped
RECURSIVE Reduce(_, _, _)
Reduce(neg, n, d) ==
    IF n = <<>> THEN [tag |-> "num", neg |-> FALSE, n |-> <<>>, d |-> <<1>>]
    ELSE IF n[1] = 0 /\ d[1] = 0 THEN Reduce(neg, Tail(n), Tail(d))
    ELSE [tag |-> "num", neg |-> neg, n |-> n, d |-> d]

\* -1, 0, 1 as x < y, x = y, x > y, for finite x and y
NumCmp(x, y) ==
    LET m == BigCmp(BigMul(x.n, y.d), BigMul(y.n, x.d))
    IN  IF x.neg /\ ~y.neg THEN (IF x.n = <<>> /\ y.n = <<>> THEN 0 ELSE -1)
        ELSE IF ~x.neg /\ y.neg THEN (IF x.n = <<>> /\ y.n = <<>> THEN 0 ELSE 1)
        ELSE IF x.neg THEN -m ELSE m

\* Python's <, >, == on floats: every comparison with NaN is false
FLt(x, y) == IsNum(x) /\ IsNum(y) /\ NumCmp(x, y) < 0

FGt(x, y) == IsNum(x) /\ IsNum(y) /\ NumCmp(x, y) > 0

FEq(x, y) == IsNum(x) /\ IsNum(y) /\ NumCmp(x, y) = 0

FAdd(x, y) ==
    IF IsErr(x) \/ IsErr(y) THEN ZeroDivisionError
    ELSE IF IsNaN(x) \/ IsNaN(y) THEN NaN
    ELSE LET a == BigMul(x.n, y.d)
             b == BigMul(y.n, x.d)
             den == BigMul(x.d, y.d)
         IN  IF x.neg = y.neg THEN Reduce(x.neg, BigAdd(a, b), den)
             ELSE IF BigCmp(a, b) >= 0 THEN Reduce(x.neg, BigSub(a, b), den)
             ELSE Reduce(y.neg, BigSub(b, a), den)

FMul(x, y) ==
    IF IsErr(x) \/ IsErr(y) THEN ZeroDivisionError
    ELSE IF IsNaN(x) \/ IsNaN(y) THEN NaN
    ELSE Reduce(x.neg # y.neg, BigMul(x.n, y.n), BigMul(x.d, y.d))

\* float division raises ZeroDivisionError on a zero divisor, also for a NaN dividend
FDiv(x, y) ==
    IF IsErr(x) \/ IsErr(y) THEN ZeroDivisionError
    ELSE IF IsZero(y) THEN ZeroDivisionError
    ELSE IF IsNaN(x) \/ IsNaN(y) THEN NaN
    ELSE Reduce(x.neg # y.neg, BigMul(x.n, y.d), BigMul(x.d, y.n))


\* the integer k with k <= x < k + 1, for finite x >= 0, searched in lo..hi-1
RECURSIVE FloorIn(_, _, _)
FloorIn(x, lo, hi) ==
    IF hi - lo <= 1 THEN lo
    ELSE LET mid == (lo + hi) \div 2
         IN  IF FLt(x, Frac(mid, 1)) THEN FloorIn(x, lo, mid) ELSE FloorIn(x, mid, hi)

RECURSIVE UpperBound(_, _)
UpperBound(x, h) == IF FLt(x, Frac(h, 1)) THEN h ELSE UpperBound(x, 2 * h)

Abs(x) == [x EXCEPT !.neg = FALSE]

\* int(x) of a finite float: truncation towards zero
Trunc(x) ==
    LET k == FloorIn(Abs(x), 0, UpperBound(Abs(x), 1))
    IN  IF x.neg THEN -k ELSE k

\* format(x, ".2f"): the hundredths nearest to x (ties to even), "nan" for NaN
Format2f(x) ==
    IF IsNaN(x) THEN [nan |-> TRUE, hundredths |-> 0]
    ELSE LET h == FMul(Abs(x), Frac(100, 1))
             q == FloorIn(h, 0, UpperBound(h, 1))
             c == NumCmp(FMul(h, Frac(2, 1)), Frac(2 * q + 1, 1))
             r == IF c > 0 \/ (c = 0 /\ q % 2 = 1) THEN q + 1 ELSE q
         IN  [nan |-> FALSE, hundredths |-> IF x.neg THEN -r ELSE r]

----------------------------------------------------------------------------
(* The physical model: air_density, kmh_to_meters_per_second, Vehicle.     *)

ATMOSPHERIC_PRESSURE == 101325

SPECIFIC_GAS_CONSTANT == Frac(287053, 1000)

ZERO_CELSIUS_IN_KELVIN == Frac(27315, 100)

STANDARD_GRAVITY == Frac(981, 100)

NEWTON_TO_KWH_100KM == FDiv(Frac(100, 1), Frac(3600, 1))

air_density(temperature) ==
    FDiv(Frac(ATMOSPHERIC_PRESSURE, 1),
         FMul(SPECIFIC_GAS_CONSTANT, FAdd(ZERO_CELSIUS_IN_KELVIN, temperature)))

kmh_to_meters_per_second(speed_kmh) ==
    FMul(speed_kmh, FDiv(Frac(1000, 1), Frac(3600, 1)))

_rolling_resistance_force(self) ==
    LET normal_force == FMul(self.mass, STANDARD_GRAVITY)
    IN  FMul(self.rolling_resistance_coeff, normal_force)

_air_drag_force(self, speed, temperature) ==
    FMul(FMul(FMul(Frac(1, 2), air_density(temperature)), self.drag_area),
         FMul(speed, speed))

_idle_power_force(self, speed) == FDiv(self.idle_power, speed)

_total_force(self, speed, temperature) ==
    FAdd(FDiv(FAdd(_rolling_resistance_force(self),
                   _air_drag_force(self, speed, temperature)),
              self.drivetrain_efficiency),
         _idle_power_force(self, speed))

consumption_in_kWh_per_100km(self, speed_kmh, temperature) ==
    LET speed_ms == kmh_to_meters_per_second(speed_kmh)
    IN  FMul(_total_force(self, speed_ms, temperature), NEWTON_TO_KWH_100KM)

----------------------------------------------------------------------------
(* Command-line option values and argparse type conversion.                *)

Options ==
    {"weight", "curb_weight", "drag_area", "drag_coefficient", "frontal_area",
     "width", "height", "rolling_resistance_coefficient",
     "drivetrain_efficiency", "idle_power", "highway_consumption",
     "temperature", "max_speed"}

\* an option value on the command line: not given, a decimal literal n/d,
\* the string "nan", or a string float() rejects (such as "abc")
Absent == [t |-> "absent", n |-> 0, d |-> 1]

Dec(n, d) == [t |-> "dec", n |-> n, d |-> d]

NanTok == [t |-> "nan", n |-> 0, d |-> 1]

BadTok == [t |-> "bad", n |-> 0, d |-> 1]

\* Python values other than floats: None, and the exceptions a type function raises
None == [tag |-> "None", neg |-> FALSE, n |-> <<>>, d |-> <<>>]

ValueError == [tag |-> "ValueError", neg |-> FALSE, n |-> <<>>, d |-> <<>>]

ArgumentTypeError == [tag |-> "ArgumentTypeError", neg |-> FALSE, n |-> <<>>, d |-> <<>>]

\* float(value) of a command-line string
float(value) ==
    IF value.t = "dec" THEN Frac(value.n, value.d)
    ELSE IF value.t = "nan" THEN NaN
    ELSE ValueError

\* valid_range(min_value, max_value)(value)
check_valid_range(min_value, max_value, value) ==
    LET fvalue == float(value)
    IN  IF fvalue.tag = "ValueError" THEN ValueError
        ELSE IF FLt(fvalue, float(min_value)) \/ FGt(fvalue, float(max_value))
        THEN ArgumentTypeError
        ELSE fvalue

\* the bounds given to valid_range in each add_argument call
Ranges ==
    [weight |-> <<Dec(200, 1), Dec(80000, 1)>>,
     curb_weight |-> <<Dec(200, 1), Dec(80000, 1)>>,
     drag_area |-> <<Dec(1, 10), Dec(40, 10)>>,
     drag_coefficient |-> <<Dec(3, 100), Dec(50, 10)>>,
     frontal_area |-> <<Dec(5, 10), Dec(80, 10)>>,
     width |-> <<Dec(5, 10), Dec(40, 10)>>,
     height |-> <<Dec(5, 10), Dec(40, 10)>>,
     rolling_resistance_coefficient |-> <<Dec(3, 1000), Dec(5, 100)>>,
     drivetrain_efficiency |-> <<Dec(0, 10), Dec(10, 10)>>,
     idle_power |-> <<Dec(0, 10), Dec(60, 10)>>,
     highway_consumption |-> <<Dec(50, 1), Dec(1000, 1)>>,
     temperature |-> <<Dec(-90, 1), Dec(60, 1)>>,
     max_speed |-> <<Dec(20, 1), Dec(250, 1)>>]

\* the default of each add_argument call (None where none is given)
Defaults ==
    [weight |-> None, curb_weight |-> None, drag_area |-> None,
     drag_coefficient |-> None, frontal_area |-> None, width |-> None,
     height |-> None,
     rolling_resistance_coefficient |-> Frac(1, 100),
     drivetrain_efficiency |-> Frac(9, 10),
     idle_power |-> Frac(5, 10),
     highway_consumption |-> None,
     temperature |-> Frac(20, 1),
     max_speed |-> Frac(200, 1)]

DEFAULT_LOAD_WEIGHT == 90

DEFAULT_DRAG_COEFFICIENT == Frac(27, 100)

FRONTAL_AREA_FACTOR == Frac(8, 10)

\* parser.parse_args(): each given option goes through its type function,
\* an option not given takes its default
parse_args(argv) ==
    [f \in Options |->
        IF argv[f].t = "absent" THEN Defaults[f]
        ELSE check_valid_range(Ranges[f][1], Ranges[f][2], argv[f])]

\* truth value of an args attribute: None and 0.0 are false, NaN is true
PyTrue(v) == v.tag # "None" /\ ~IsZero(v)

NoParams ==
    [vehicle |-> [mass |-> None, drag_area |-> None, drivetrain_efficiency |-> None,
                  rolling_resistance_coeff |-> None, idle_power |-> None],
     temperature |-> None, highway_consumption |-> None, max_speed |-> 0]

\* exit status of parser.error, of an uncaught exception, of a normal return
EXIT_USAGE == 2

EXIT_EXCEPTION == 1

EXIT_OK == 0

Failure(status, message) == [exit |-> status, error |-> message, params |-> NoParams]

\* line 213: neither weight option given
NeedWeight(args) == ~(PyTrue(args.weight) \/ PyTrue(args.curb_weight))

\* line 215: both weight options given
BothWeights(args) == PyTrue(args.weight) /\ PyTrue(args.curb_weight)

\* lines 217-219: --drag-area together with an input of another drag path
DragAreaConflict(args) ==
    PyTrue(args.drag_area)
        /\ (PyTrue(args.drag_coefficient) \/ PyTrue(args.frontal_area)
                \/ PyTrue(args.width) \/ PyTrue(args.height))

\* line 223: --frontal-area together with --width or --height
FrontalAreaConflict(args) ==
    PyTrue(args.frontal_area) /\ (PyTrue(args.width) \/ PyTrue(args.height))

WidthHeightMismatchOff(args) == FALSE

\* line 225: one of --width, --height without the other
WidthHeightMismatch(args) == (args.width.tag = "None") # (args.height.tag = "None")

ResolveWeightNoLoad(args) ==
    IF ~PyTrue(args.weight) THEN args.curb_weight ELSE args.weight

\* lines 228-229: args.weight after the curb weight fallback
ResolveWeight(args) ==
    IF ~PyTrue(args.weight)
    THEN FAdd(args.curb_weight, Frac(DEFAULT_LOAD_WEIGHT, 1))
    ELSE args.weight

\* lines 231-232: args.drag_coefficient after the default
ResolveDragCoefficient(args) ==
    IF ~PyTrue(args.drag_coefficient) THEN DEFAULT_DRAG_COEFFICIENT
    ELSE args.drag_coefficient

\* lines 234-245: args.drag_area; None stands for the parser.error of the else branch
ResolveDragArea(args) ==
    LET drag_coefficient == ResolveDragCoefficient(args)
    IN  IF PyTrue(args.drag_area) THEN args.drag_area
        ELSE IF PyTrue(args.frontal_area)
        THEN FMul(drag_coefficient, args.frontal_area)
        ELSE IF PyTrue(args.width)
        THEN LET frontal_area ==
                     FMul(FMul(FRONTAL_AREA_FACTOR, args.width), args.height)
             IN  FMul(drag_coefficient, frontal_area)
        ELSE None

\* parse_params(): the exit status and message of a failed call, or the Params
parse_params(argv) ==
    LET args == parse_args(argv)
    IN  IF \E f \in Options : args[f].tag \in {"ValueError", "ArgumentTypeError"}
        THEN Failure(EXIT_USAGE, "argument: invalid value")
        ELSE IF NeedWeight(args)
        THEN Failure(EXIT_USAGE, "Need either --weight or --curb-weight.")
        ELSE IF BothWeights(args)
        THEN Failure(EXIT_USAGE, "Cannot have both --weight and --curb-weight.")
        ELSE IF DragAreaConflict(args)
        THEN Failure(EXIT_USAGE, "If --drag-area is given, cannot use --drag-coefficient, --frontal-area, --width, or --height.")
        ELSE IF FrontalAreaConflict(args)
        THEN Failure(EXIT_USAGE, "If --frontal-area is given, cannot use --width or --height.")
        ELSE IF WidthHeightMismatch(args)
        THEN Failure(EXIT_USAGE, "Both --width and --height must be given together.")
        ELSE IF ResolveDragArea(args).tag = "None"
        THEN Failure(EXIT_USAGE, "Must specify --drag-area or --frontal-area or --width and --height.")
        ELSE IF IsNaN(args.max_speed)
        THEN Failure(EXIT_EXCEPTION, "ValueError: cannot convert float NaN to integer")
        ELSE [exit |-> EXIT_OK, error |-> "",
              params |->
                [vehicle |->
                    [mass |-> ResolveWeight(args),
                     drag_area |-> ResolveDragArea(args),
                     drivetrain_efficiency |-> args.drivetrain_efficiency,
                     rolling_resistance_coeff |-> args.rolling_resistance_coefficient,
                     idle_power |-> FMul(Frac(1000, 1), args.idle_power)],
                 temperature |-> args.temperature,
                 highway_consumption |->
                    IF args.highway_consumption.tag = "None" THEN None
                    ELSE FMul(FDiv(args.highway_consumption, Frac(1000, 1)),
                              Frac(100, 1)),
                 max_speed |-> Trunc(args.max_speed)]]

----------------------------------------------------------------------------
(* main(): calibration, sweep, print.                                      *)

CALIBRATION_SPEED == 110

CALIBRATION_TEMPERATURE == 23

MIN_SPEED == 10

SPEED_STEP == 10

ScalingFactorAt100(p) ==
    IF PyTrue(p.highway_consumption)
    THEN FDiv(p.highway_consumption,
              consumption_in_kWh_per_100km(p.vehicle, Frac(100, 1),
                                           Frac(CALIBRATION_TEMPERATURE, 1)))
    ELSE Frac(1, 1)

\* scaling_factor of main
ScalingFactor(p) ==
    IF PyTrue(p.highway_consumption)
    THEN FDiv(p.highway_consumption,
              consumption_in_kWh_per_100km(p.vehicle,
                                           Frac(CALIBRATION_SPEED, 1),
                                           Frac(CALIBRATION_TEMPERATURE, 1)))
    ELSE Frac(1, 1)

SPEEDSExclusive(max_speed) ==
    LET len == IF max_speed > MIN_SPEED
               THEN (max_speed - MIN_SPEED + SPEED_STEP - 1) \div SPEED_STEP
               ELSE 0
    IN  [i \in 1..len |-> MIN_SPEED + (i - 1) * SPEED_STEP]

\* range(MIN_SPEED, max_speed + 1, SPEED_STEP) as a sequence
SPEEDS(max_speed) ==
    LET stop == max_speed + 1
        len == IF stop > MIN_SPEED
               THEN (stop - MIN_SPEED + SPEED_STEP - 1) \div SPEED_STEP
               ELSE 0
    IN  [i \in 1..len |-> MIN_SPEED + (i - 1) * SPEED_STEP]

CurvePointAdded(p, factor, speed) ==
    [s |-> speed,
     c |-> FAdd(factor,
                consumption_in_kWh_per_100km(p.vehicle, Frac(speed, 1),
                                             p.temperature))]

CurvePointDivided(p, factor, speed) ==
    [s |-> speed,
     c |-> FDiv(factor,
                consumption_in_kWh_per_100km(p.vehicle, Frac(speed, 1),
                                             p.temperature))]

\* one element of the list comprehension that builds curve
CurvePoint(p, factor, speed) ==
    [s |-> speed,
     c |-> FMul(factor,
                consumption_in_kWh_per_100km(p.vehicle, Frac(speed, 1),
                                             p.temperature))]

\* the line print writes: one "speed,consumption" item per curve point
Line(curve) ==
    [i \in 1..Len(curve) |-> [s |-> curve[i].s, c |-> Format2f(curve[i].c)]]

\* a whole run of main() on the given option values: exit status, the curve
\* list and the lines written to standard output
main(argv) ==
    LET r == parse_params(argv)
        factor == ScalingFactor(r.params)
        speeds == SPEEDS(r.params.max_speed)
        points == [i \in 1..Len(speeds) |-> CurvePoint(r.params, factor, speeds[i])]
    IN  IF r.exit # EXIT_OK
        THEN [exit |-> r.exit, curve |-> <<>>, stdout |-> <<>>]
        ELSE IF IsErr(factor) \/ \E i \in 1..Len(points) : IsErr(points[i].c)
        THEN [exit |-> EXIT_EXCEPTION, curve |-> <<>>, stdout |-> <<>>]
        ELSE [exit |-> EXIT_OK, curve |-> points, stdout |-> <<Line(points)>>]

VARIABLES raw, pc, params, scaling_factor, curve, stdout, exit_status, error

vars == <<raw, pc, params, scaling_factor, curve, stdout, exit_status, error>>

\* exit_status of a process that has not exited
RUNNING == -1

ParseParams ==
    /\ pc = "parse_params"
    /\ LET r == parse_params(raw)
       IN  IF r.exit = EXIT_OK
           THEN /\ params' = r.params
                /\ pc' = "scaling_factor"
                /\ UNCHANGED <<exit_status, error>>
           ELSE /\ pc' = "exited"
                /\ exit_status' = r.exit
                /\ error' = r.error
                /\ UNCHANGED params
    /\ UNCHANGED <<raw, scaling_factor, curve, stdout>>

RaiseExitsZero(exception) ==
    /\ pc' = "exited"
    /\ exit_status' = EXIT_OK
    /\ error' = exception

\* an uncaught exception ends the process with a traceback
Raise(exception) ==
    /\ pc' = "exited"
    /\ exit_status' = EXIT_EXCEPTION
    /\ error' = exception

Calibrate ==
    /\ pc = "scaling_factor"
    /\ LET f == ScalingFactor(params)
       IN  IF IsErr(f)
           THEN Raise(f.tag) /\ UNCHANGED scaling_factor
           ELSE /\ scaling_factor' = f
                /\ pc' = "curve"
                /\ UNCHANGED <<exit_status, error>>
    /\ UNCHANGED <<raw, params, curve, stdout>>

SweepStep ==
    /\ pc = "curve"
    /\ Len(curve) < Len(SPEEDS(params.max_speed))
    /\ LET p == CurvePoint(params, scaling_factor,
                           SPEEDS(params.max_speed)[Len(curve) + 1])
       IN  IF IsErr(p.c)
           THEN Raise(p.c.tag) /\ UNCHANGED curve
           ELSE /\ curve' = Append(curve, p)
                /\ UNCHANGED <<pc, exit_status, error>>
    /\ UNCHANGED <<raw, params, scaling_factor, stdout>>

PrintCurve ==
    /\ pc = "curve"
    /\ Len(curve) = Len(SPEEDS(params.max_speed))
    /\ stdout' = Append(stdout, Line(curve))
    /\ pc' = "exited"
    /\ exit_status' = EXIT_OK
    /\ UNCHANGED <<raw, params, scaling_factor, curve, error>>

----------------------------------------------------------------------------
(* The runs explored.                                                      *)

\* number of intervals of the grid of in-range values tried for each option
Grid == 2

Milli(v) == v.n * (1000 \div v.d)

\* the i-th of the Grid + 1 evenly spaced values of option f's range, in thousandths
GridValue(f, i) ==
    Dec((Milli(Ranges[f][1]) * (Grid - i) + Milli(Ranges[f][2]) * i) \div Grid, 1000)

\* values of option f: just outside and inside its range, "nan" and a non-number
Values(f) ==
    {GridValue(f, i) : i \in 0..Grid}
        \cup {Dec(Milli(Ranges[f][1]) - 1, 1000), Dec(Milli(Ranges[f][2]) + 1, 1000),
              NanTok, BadTok}
        \cup (IF f = "max_speed" THEN {Dec(5, 1), Dec(257, 10)} ELSE {})

NoOptions == [f \in Options |-> Absent]

BaseRun ==
    [NoOptions EXCEPT !.weight = Dec(1800, 1), !.drag_area = Dec(5, 10),
                      !.max_speed = Dec(30, 1)]

\* a run accepted for any in-range value of option f
BaseFor(f) ==
    IF f = "curb_weight" THEN [BaseRun EXCEPT !.weight = Absent]
    ELSE IF f \in {"drag_coefficient", "frontal_area"}
    THEN [BaseRun EXCEPT !.drag_area = Absent, !.frontal_area = Dec(20, 10)]
    ELSE IF f \in {"width", "height"}
    THEN [BaseRun EXCEPT !.drag_area = Absent, !.width = Dec(20, 10),
                         !.height = Dec(125, 100)]
    ELSE BaseRun

\* one option varied over its values
RangeRuns == UNION {{[BaseFor(f) EXCEPT ![f] = v] : v \in Values(f)} : f \in Options}

StructuralOptions ==
    {"weight", "curb_weight", "drag_area", "drag_coefficient", "frontal_area",
     "width", "height"}

Sample ==
    [NoOptions EXCEPT !.weight = Dec(1800, 1), !.curb_weight = Dec(1710, 1),
                      !.drag_area = Dec(5, 10), !.drag_coefficient = Dec(25, 100),
                      !.frontal_area = Dec(20, 10), !.width = Dec(20, 10),
                      !.height = Dec(125, 100), !.max_speed = Dec(20, 1)]

\* every combination of present and absent weight and drag options
PresenceRuns ==
    {[f \in Options |-> IF f \in StructuralOptions /\ f \notin S THEN Absent ELSE Sample[f]] :
        S \in SUBSET StructuralOptions}

\* calibrated and uncalibrated sweeps past 110 km/h
SweepRuns ==
    {[BaseRun EXCEPT !.temperature = t, !.highway_consumption = h,
                     !.idle_power = p, !.max_speed = Dec(120, 1)] :
        t \in {Absent, Dec(23, 1), Dec(-90, 1), Dec(60, 1)},
        h \in {Absent, Dec(50, 1), Dec(200, 1), Dec(3333, 10)},
        p \in {Absent, Dec(0, 1), Dec(6, 1)}}

OtherRuns ==
    {[BaseRun EXCEPT !.max_speed = Absent],
     [BaseRun EXCEPT !.drivetrain_efficiency = Dec(0, 1),
                     !.highway_consumption = Dec(200, 1)],
     [BaseRun EXCEPT !.weight = NanTok, !.highway_consumption = Dec(200, 1),
                     !.temperature = Dec(23, 1), !.max_speed = Dec(110, 1)]}

Runs == RangeRuns \cup PresenceRuns \cup SweepRuns \cup OtherRuns

Init ==
    /\ raw \in Runs
    /\ pc = "parse_params"
    /\ params = NoParams
    /\ scaling_factor = None
    /\ curve = <<>>
    /\ stdout = <<>>
    /\ exit_status = RUNNING
    /\ error = ""

Next == ParseParams \/ Calibrate \/ SweepStep \/ PrintCurve

Spec == Init /\ [][Next]_vars

----------------------------------------------------------------------------
(* Properties.                                                             *)

\* largest factor tried between two calibration targets
MaxK == 3

Given(f) == raw[f].t # "absent"

ExitedOk == pc = "exited" /\ exit_status = EXIT_OK

Zero == Frac(0, 1)

\* v is a number within the bounds the option's add_argument call declares
InRange(f, v) ==
    /\ v.t = "dec"
    /\ ~FLt(float(v), float(Ranges[f][1]))
    /\ ~FGt(float(v), float(Ranges[f][2]))

\* v is a number of the option's domain; drivetrain-efficiency excludes 0
InDomain(f, v) ==
    InRange(f, v) /\ (f = "drivetrain_efficiency" => FGt(float(v), Zero))

\* equal as printed: the same number, or both NaN
SameFloat(a, b) == (IsNaN(a) /\ IsNaN(b)) \/ FEq(a, b)

SameCurve(c1, c2) ==
    /\ Len(c1) = Len(c2)
    /\ \A i \in 1..Len(c1) : c1[i].s = c2[i].s /\ SameFloat(c1[i].c, c2[i].c)

\* the option values of the run as the claims read them
Temperature == IF Given("temperature") THEN float(raw.temperature) ELSE Frac(20, 1)

MaxSpeed == IF Given("max_speed") THEN float(raw.max_speed) ELSE Frac(200, 1)

\* h / 1000 * 100 for the calibration target h given in Wh/km
Target == FMul(FDiv(float(raw.highway_consumption), Frac(1000, 1)), Frac(100, 1))

VehicleOptions ==
    {"weight", "curb_weight", "drag_area", "drag_coefficient", "frontal_area",
     "width", "height", "rolling_resistance_coefficient", "drivetrain_efficiency",
     "idle_power"}

\* C1: once parse_params has returned a Params, every option given lies in its
\* declared domain (drivetrain-efficiency strictly above 0), and a run with a
\* value outside its domain or not a number ends in a configuration error.
C1_ValuesWithinDomains ==
    /\ params # NoParams =>
          /\ \A f \in Options : Given(f) => InDomain(f, raw[f])
          /\ FGt(params.vehicle.drivetrain_efficiency, Zero)
          /\ params.max_speed \in 20..250
    /\ (pc = "exited" /\ \E f \in Options : Given(f) /\ ~InDomain(f, raw[f]))
          => exit_status = EXIT_USAGE

\* C2: a run that fails has failed inside parse_params: after parse_params has
\* returned a Params, no query of the model raises.
C2_FailsOnlyInParseParams ==
    (pc = "exited" /\ exit_status # EXIT_OK) => params = NoParams

C3_Allowed(argv) ==
    LET g(f) == argv[f].t # "absent"
    IN  /\ g("weight") # g("curb_weight")
        /\ \/ /\ g("drag_area")
              /\ ~g("drag_coefficient") /\ ~g("frontal_area")
              /\ ~g("width") /\ ~g("height")
           \/ /\ g("frontal_area")
              /\ ~g("drag_area") /\ ~g("width") /\ ~g("height")
           \/ /\ g("width") /\ g("height")
              /\ ~g("drag_area") /\ ~g("frontal_area")

\* C3: with in-range values, parse_params returns a Params exactly when one
\* weight variant and exactly one drag path are given; every other combination
\* of the weight and drag options ends in a configuration error.
C3_AcceptedCombinations ==
    (pc # "parse_params" /\ \A f \in Options : Given(f) => InRange(f, raw[f]))
        => IF C3_Allowed(raw)
           THEN params # NoParams
           ELSE pc = "exited" /\ exit_status = EXIT_USAGE /\ params = NoParams

C3_Witness ==
    /\ params # NoParams
    /\ Given("curb_weight") /\ Given("width") /\ Given("height")
    /\ Given("drag_coefficient")

C4_Calibrated ==
    /\ ExitedOk
    /\ raw.highway_consumption.t = "dec"
    /\ Len(curve) >= 11

C5_Scale ==
    IF Given("highway_consumption")
    THEN FDiv(Target, consumption_in_kWh_per_100km(params.vehicle, Frac(110, 1),
                                                   Frac(23, 1)))
    ELSE Frac(1, 1)

\* the printed curve has the speeds 10, 20, ... up to max_speed, each paired
\* with scale * C(speed, temperature)
C5_CurveShape ==
    ExitedOk =>
        /\ ~FGt(Frac(10 * Len(curve), 1), MaxSpeed)
        /\ FLt(MaxSpeed, Frac(10 * (Len(curve) + 1), 1))
        /\ \A i \in 1..Len(curve) :
              /\ curve[i].s = 10 * i
              /\ SameFloat(curve[i].c,
                           FMul(C5_Scale,
                                consumption_in_kWh_per_100km(
                                    params.vehicle, Frac(10 * i, 1), Temperature)))

C5_BelowTen ==
    /\ pc = "exited"
    /\ raw.max_speed.t = "dec"
    /\ FLt(MaxSpeed, Frac(10, 1))
    /\ raw = [BaseRun EXCEPT !.max_speed = raw.max_speed]

\* C5 as stated: the curve has exactly the speeds 10, 20, ... up to max_speed
\* with the values scale * C(speed, temperature), and a max_speed below 10
\* gives an empty curve and not an error.
C5_EmptyCurveBelowTen ==
    /\ C5_CurveShape
    /\ C5_BelowTen => (exit_status = EXIT_OK /\ curve = <<>>)

\* C5 amended: a printed curve has exactly the speeds 10, 20, ... up to
\* max_speed with the values scale * C(speed, temperature); it is never empty,
\* and a --max-speed below 20 (so also below 10) is a configuration error.
C5_CurveNeverEmpty ==
    /\ C5_CurveShape
    /\ ExitedOk => Len(curve) >= 2
    /\ (pc = "exited" /\ raw.max_speed.t = "dec" /\ FLt(MaxSpeed, Frac(20, 1)))
          => (exit_status = EXIT_USAGE /\ curve = <<>>)

C5_Witness ==
    /\ ExitedOk
    /\ raw.max_speed = Dec(257, 10)
    /\ Len(curve) = 2

\* C6: a run that ends in an error exits non-zero with nothing written; a run
\* that exits zero has written exactly one complete curve line; nothing is
\* written before the scale factor and every sweep value are computed.
C6_OutputAgreesWithExit ==
    /\ (pc = "exited" /\ error # "") => (exit_status # EXIT_OK /\ stdout = <<>>)
    /\ exit_status # EXIT_OK => stdout = <<>>
    /\ pc = "exited" => exit_status \in {EXIT_OK, EXIT_EXCEPTION, EXIT_USAGE}
    /\ ExitedOk =>
          /\ Len(stdout) = 1
          /\ error = ""
          /\ scaling_factor # None
          /\ Len(curve) = Len(SPEEDS(params.max_speed))
          /\ stdout[1] = Line(curve)

C6_Witness ==
    /\ ExitedOk
    /\ Len(stdout) = 1
    /\ Len(stdout[1]) = 25

\* the run with the resolved total weight and drag area given directly
C7_Resolved(argv) ==
    LET cw == argv.curb_weight
        c  == IF argv.drag_coefficient.t = "absent" THEN Dec(27, 100)
              ELSE argv.drag_coefficient
        fa == argv.frontal_area
        wi == argv.width
        he == argv.height
        byCurb == argv.weight.t = "absent" /\ cw.t = "dec"
        byArea == argv.drag_area.t = "absent" /\ c.t = "dec" /\ fa.t = "dec"
        bySize == argv.drag_area.t = "absent" /\ c.t = "dec" /\ fa.t = "absent"
                    /\ wi.t = "dec" /\ he.t = "dec"
    IN  [argv EXCEPT
            !.weight = IF byCurb THEN Dec(cw.n + 90 * cw.d, cw.d) ELSE @,
            !.curb_weight = IF byCurb THEN Absent ELSE @,
            !.drag_area =
                IF byArea THEN Dec(c.n * fa.n, c.d * fa.d)
                ELSE IF bySize
                THEN Dec(c.n * 8 * wi.n * he.n, c.d * 10 * wi.d * he.d)
                ELSE @,
            !.drag_coefficient = IF byArea \/ bySize THEN Absent ELSE @,
            !.frontal_area = IF byArea THEN Absent ELSE @,
            !.width = IF bySize THEN Absent ELSE @,
            !.height = IF bySize THEN Absent ELSE @]

\* C7: a run given --curb-weight=w-90, or a drag coefficient (0.27 when
\* omitted) with a frontal area or with width and height, prints the same curve
\* as the accepted run given --weight=w and --drag-area=a directly, where a is
\* c*f or c*0.8*W*H.
C7_ResolvedInputsOnly ==
    (ExitedOk /\ C7_Resolved(raw) # raw
        /\ parse_params(C7_Resolved(raw)).exit = EXIT_OK)
        => LET m == main(C7_Resolved(raw))
           IN  /\ m.exit = EXIT_OK
               /\ SameCurve(m.curve, curve)
               /\ m.stdout = stdout

C7_Witness ==
    /\ ExitedOk
    /\ Given("curb_weight") /\ Given("width") /\ Given("height")
    /\ ~Given("drag_coefficient")
    /\ parse_params(C7_Resolved(raw)).exit = EXIT_OK

C8_Scaled(k) ==
    [raw EXCEPT !.highway_consumption =
                    Dec(k * raw.highway_consumption.n, raw.highway_consumption.d)]

\* C8: of two accepted runs that differ only in the calibration target, h and
\* k*h, the second curve has the same speeds and k times the value at each.
C8_LinearScaling ==
    (ExitedOk /\ raw.highway_consumption.t = "dec")
        => \A k \in 2..MaxK :
              LET m == main(C8_Scaled(k))
              IN  m.exit = EXIT_OK
                    => /\ Len(m.curve) = Len(curve)
                       /\ \A i \in 1..Len(curve) :
                             /\ m.curve[i].s = curve[i].s
                             /\ SameFloat(m.curve[i].c,
                                          FMul(Frac(k, 1), curve[i].c))

C8_Witness ==
    /\ ExitedOk
    /\ raw.highway_consumption = Dec(200, 1)
    /\ Len(curve) = 12
    /\ main(C8_Scaled(MaxK)).exit = EXIT_OK

\* C9: for the Vehicle parse_params returns, consumption_in_kWh_per_100km is
\* strictly positive at every speed of the sweep, and so is every value of the
\* curve.
C9_StrictlyPositive ==
    /\ pc = "scaling_factor" =>
          \A i \in 1..Len(SPEEDS(params.max_speed)) :
              FGt(consumption_in_kWh_per_100km(
                      params.vehicle, Frac(SPEEDS(params.max_speed)[i], 1),
                      params.temperature), Zero)
    /\ \A i \in 1..Len(curve) : FGt(curve[i].c, Zero)

\* C10: on the sampled curve, once the value at one speed exceeds the value at
\* the speed before, the values at all later samples are strictly increasing.
C10_NeverRisesThenFalls ==
    pc = "exited" =>
        \A i \in 1..(Len(curve) - 1) :
            FGt(curve[i + 1].c, curve[i].c)
                => \A j \in (i + 1)..(Len(curve) - 1) :
                      FGt(curve[j + 1].c, curve[j].c)

\* the minimum is not at the first sample, and the curve rises after it
C10_Witness ==
    /\ ExitedOk
    /\ Len(curve) = 12
    /\ FLt(curve[2].c, curve[1].c)
    /\ FLt(curve[8].c, curve[7].c)
    /\ FGt(curve[10].c, curve[9].c)
    /\ FGt(curve[12].c, curve[11].c)

=============================================================================
